---- MODULE Spec2Model ----
(***************************************************************************)
(* A model of the test units of learn_rust_by_testing:                     *)
(*   tests/interior-mutability.rs  RefCell, LimitTracker/MockMessenger,    *)
(*                                 the Rc<RefCell<i32>> cons list          *)
(*   tests/references.rs           Box, MyBox<T> with Deref / DerefMut     *)
(*   src/lib.rs                    the compile_fail / should_panic examples*)
(*                                                                         *)
(* Every test unit runs alone, single-threaded, to completion or to its    *)
(* first panic.  Each unit is one specification below; a specification     *)
(* leaves the variables of the other units at their idle values.           *)
(***************************************************************************)
EXTENDS Integers, Sequences, FiniteSets, TLC

VARIABLES
    panicked,       \* the current unit of execution has panicked
    trace,          \* the statements the unit has executed, in order
    message_cell,   \* test_refcell: RefCell<String>, [value, borrow]
    refs,           \* live Ref guards the unit holds on message_cell
    refmuts,        \* live RefMut guards the unit holds on message_cell
    limit_tracker,  \* test_interior_mutability: LimitTracker fields
    sent_messages,  \* MockMessenger.sent_messages: RefCell<Vec<String>>
    caller_refs,    \* live Ref guards the test body holds on sent_messages
    heap,           \* test_multiple_interior_mutability: the Rc allocations
    binds,          \* ... and the test's let bindings, name -> heap address
    stack,          \* test_user_defined_deref: the local mybox: MyBox<String>
    mut_ref,        \* ... and the live &mut String taken from it, or <<>>
    prog,           \* move semantics: the function body under translation
    pc,             \* ... statements of prog executed so far
    text,           \* ... the binding text: [state, value]
    text_box        \* ... the binding text_box (boxed): [state, value]

cellVars == <<message_cell, refs, refmuts>>

trackerVars == <<limit_tracker, sent_messages, caller_refs>>

listVars == <<heap, binds>>

boxVars == <<stack, mut_ref>>

moveVars == <<prog, pc, text, text_box>>

vars == <<panicked, trace, cellVars, trackerVars, listVars, boxVars, moveVars>>

(***************************************************************************)
(* Bounds of the model.                                                    *)
(***************************************************************************)
MaxOps == 6         \* statements executed by one unit after the constructor
MaxGuards == 2      \* guards a unit holds at the same time
MaxCalls == 3       \* statements of the LimitTracker test after construction
MaxBoxOps == 4      \* statements of a MyBox test after construction
MaxStmts == 6       \* statements of a function body after let text = ..

(***************************************************************************)
(* Helpers on sequences.                                                   *)
(***************************************************************************)
Last(s) == s[Len(s)]

(***************************************************************************)
(* std::cell::RefCell<T>: the value and its BorrowFlag.  The flag is 0     *)
(* when unused, n > 0 with n shared borrows, -1 with a mutable borrow.     *)
(***************************************************************************)
RefCell_new(v) == [value |-> v, borrow |-> 0]

\* A RefCell that hands out shared borrows without looking at the flag.
try_borrow_unchecked(c) == TRUE

\* BorrowRef::new: the shared borrow is granted when flag + 1 is "reading".
try_borrow(c) == c.borrow + 1 > 0

\* A RefCell that refuses a mutable borrow only to readers, not to a writer.
try_borrow_mut_readers_only(c) == c.borrow <= 0

\* BorrowRefMut::new: the mutable borrow is granted only when unused.
try_borrow_mut(c) == c.borrow = 0

Ref_new(c) == [c EXCEPT !.borrow = @ + 1]

RefMut_new(c) == [c EXCEPT !.borrow = @ - 1]

Ref_drop(c) == [c EXCEPT !.borrow = @ - 1]

RefMut_drop(c) == [c EXCEPT !.borrow = @ + 1]

(***************************************************************************)
(* The unit of execution: a panic is never caught, so a panicked unit      *)
(* executes nothing more.                                                  *)
(***************************************************************************)
Entry(o, a, p, v) == [op |-> o, arg |-> a, panic |-> p, val |-> v]

\* A unit that catches the panic and goes on.
unit_alive_caught == Len(trace) <= MaxOps

unit_alive == ~panicked /\ Len(trace) <= MaxOps

\* The statement o ran to its end.
Ran(o, a, v) == trace' = Append(trace, Entry(o, a, FALSE, v)) /\ panicked' = FALSE

\* The statement o panicked: the unit stops there.
Panicked(o, a) == trace' = Append(trace, Entry(o, a, TRUE, "")) /\ panicked' = TRUE

(***************************************************************************)
(* Idle values of the units a specification does not run.                  *)
(***************************************************************************)
CellIdle == message_cell = RefCell_new("") /\ refs = 0 /\ refmuts = 0

TrackerIdle ==
    /\ limit_tracker = [messenger |-> "none", usage |-> 0, max_usage |-> 0]
    /\ sent_messages = RefCell_new(<<>>)
    /\ caller_refs = 0

ListIdle == heap = <<>> /\ binds = [start_value |-> 0, common_list |-> 0, branch_1 |-> 0, branch_2 |-> 0]

BoxIdle == stack = [mybox |-> <<"">>] /\ mut_ref = <<>>

MoveIdle ==
    /\ prog = <<>>
    /\ pc = 0
    /\ text = [state |-> "uninit", value |-> ""]
    /\ text_box = [state |-> "uninit", value |-> ""]

(***************************************************************************)
(* test_refcell (tests/interior-mutability.rs, lines 3-36) and the         *)
(* should_panic example of src/lib.rs: statements on a RefCell<String>.    *)
(***************************************************************************)
InitTexts == {"Hello", "Hi"}

Suffixes == {" world!", "!"}

\* let message_cell = RefCell::new( String::from(t) );
InitRefCell ==
    /\ \E t \in InitTexts :
        /\ message_cell = RefCell_new(t)
        /\ trace = <<Entry("new", t, FALSE, "")>>
    /\ refs = 0
    /\ refmuts = 0
    /\ panicked = FALSE
    /\ TrackerIdle /\ ListIdle /\ BoxIdle /\ MoveIdle

\* assert_eq!(*message_cell.borrow(), ...): a temporary Ref, read, dropped
\* at the end of the statement.
ReadTemp ==
    /\ unit_alive
    /\ IF try_borrow(message_cell)
       THEN /\ message_cell' = Ref_drop(Ref_new(message_cell))
            /\ Ran("read_temp", "", Ref_new(message_cell).value)
       ELSE /\ message_cell' = message_cell
            /\ Panicked("read_temp", "")
    /\ UNCHANGED <<refs, refmuts, trackerVars, listVars, boxVars, moveVars>>

\* let inner_string = message_cell.borrow();
LetBorrow ==
    /\ unit_alive
    /\ refs + refmuts < MaxGuards
    /\ IF try_borrow(message_cell)
       THEN /\ message_cell' = Ref_new(message_cell)
            /\ refs' = refs + 1
            /\ Ran("let_borrow", "", "")
       ELSE /\ UNCHANGED <<message_cell, refs>>
            /\ Panicked("let_borrow", "")
    /\ UNCHANGED <<refmuts, trackerVars, listVars, boxVars, moveVars>>

\* let mut inner_string = message_cell.borrow_mut();
LetBorrowMut ==
    /\ unit_alive
    /\ refs + refmuts < MaxGuards
    /\ IF try_borrow_mut(message_cell)
       THEN /\ message_cell' = RefMut_new(message_cell)
            /\ refmuts' = refmuts + 1
            /\ Ran("let_borrow_mut", "", "")
       ELSE /\ UNCHANGED <<message_cell, refmuts>>
            /\ Panicked("let_borrow_mut", "")
    /\ UNCHANGED <<refs, trackerVars, listVars, boxVars, moveVars>>

\* (*inner_string).push_str(s): through a live RefMut.
PushStr(s) ==
    /\ unit_alive
    /\ refmuts > 0
    /\ message_cell' = [message_cell EXCEPT !.value = @ \o s]
    /\ Ran("push_str", s, "")
    /\ UNCHANGED <<refs, refmuts, trackerVars, listVars, boxVars, moveVars>>

\* assert_eq!(*inner_string, ...): a read through a live guard.
ReadHeld ==
    /\ unit_alive
    /\ refs + refmuts > 0
    /\ Ran("read_held", "", message_cell.value)
    /\ UNCHANGED <<cellVars, trackerVars, listVars, boxVars, moveVars>>

\* A scope end that forgets the RefMut instead of dropping it.
EndScopeMut_leak ==
    /\ unit_alive
    /\ refmuts > 0
    /\ refmuts' = refmuts - 1
    /\ Ran("end_scope_mut", "", "")
    /\ UNCHANGED <<message_cell, refs, trackerVars, listVars, boxVars, moveVars>>

\* The closing brace of the scope that owns a RefMut: the guard is dropped.
EndScopeMut ==
    /\ unit_alive
    /\ refmuts > 0
    /\ message_cell' = RefMut_drop(message_cell)
    /\ refmuts' = refmuts - 1
    /\ Ran("end_scope_mut", "", "")
    /\ UNCHANGED <<refs, trackerVars, listVars, boxVars, moveVars>>

\* The closing brace of the scope that owns a Ref: the guard is dropped.
EndScopeRef ==
    /\ unit_alive
    /\ refs > 0
    /\ message_cell' = Ref_drop(message_cell)
    /\ refs' = refs - 1
    /\ Ran("end_scope_ref", "", "")
    /\ UNCHANGED <<refmuts, trackerVars, listVars, boxVars, moveVars>>

NextRefCell ==
    \/ ReadTemp
    \/ LetBorrow
    \/ LetBorrowMut
    \/ \E s \in Suffixes : PushStr(s)
    \/ ReadHeld
    \/ EndScopeMut
    \/ EndScopeRef

SpecRefCell == InitRefCell /\ [][NextRefCell]_vars

(***************************************************************************)
(* The two tests of test_refcell as statement sequences (op, argument).    *)
(***************************************************************************)
\* it_allows_modification_of_immutable_ref, lines 11-19.
ItAllowsScript ==
    << <<"new", "Hello">>, <<"read_temp", "">>, <<"let_borrow_mut", "">>,
       <<"push_str", " world!">>, <<"end_scope_mut", "">>, <<"read_temp", "">> >>

\* it_panics_on_borrowing_a_mutable_borrow, lines 27-34.
ItPanicsScript ==
    << <<"new", "Hello">>, <<"read_temp", "">>, <<"let_borrow_mut", "">>,
       <<"push_str", " world!">>, <<"let_borrow", "">>, <<"read_held", "">> >>

\* The unit has executed the first k statements of script, in order.
Reaches(script, k) ==
    /\ Len(trace) >= k
    /\ \A i \in 1..k : <<trace[i].op, trace[i].arg>> = script[i]

\* The string built by the statements of t whose op is in writers.
RECURSIVE Written(_, _)
Written(t, writers) ==
    IF t = <<>> THEN ""
    ELSE Written(SubSeq(t, 1, Len(t) - 1), writers)
            \o (IF Last(t).op \in writers THEN Last(t).arg ELSE "")

BorrowOps == {"read_temp", "let_borrow"}

(***************************************************************************)
(* C1: at most one RefMut guard is live, and a RefMut guard is never live  *)
(* together with a Ref guard.                                              *)
(***************************************************************************)
C1_Exclusive == refmuts <= 1 /\ (refmuts >= 1 => refs = 0)

\* A mutable ticket is live after an immutable one was taken and released.
C1_Witness == refmuts = 1 /\ \E i \in 1..Len(trace) : trace[i].op = "end_scope_ref"

(***************************************************************************)
(* C2: the grant rule.  A shared borrow panics exactly when a RefMut guard *)
(* is live; a mutable borrow panics exactly when any guard is live.        *)
(***************************************************************************)
C2_GrantRule ==
    [][Len(trace') = Len(trace) + 1 =>
        /\ Last(trace').op \in BorrowOps => (Last(trace').panic <=> refmuts > 0)
        /\ Last(trace').op = "let_borrow_mut" => (Last(trace').panic <=> refs + refmuts > 0)
      ]_vars

\* A mutable borrow was refused because an immutable ticket was live.
C2_Witness == panicked /\ Last(trace).op = "let_borrow_mut" /\ refs = 1 /\ refmuts = 0

(***************************************************************************)
(* C3: the panic ends the unit at the violating borrow.  Only the last     *)
(* executed statement can be a panic, and it_panics_on_borrowing_a_mutable_*)
(* borrow stops at its second borrow: its final assert_eq never runs.      *)
(***************************************************************************)
C3_PanicTerminates ==
    /\ \A i \in 1..Len(trace) : trace[i].panic => i = Len(trace)
    /\ panicked <=> Last(trace).panic
    /\ Reaches(ItPanicsScript, 5) => trace[5].panic /\ Len(trace) = 5

C3_Witness == Reaches(ItPanicsScript, 5) /\ panicked

(***************************************************************************)
(* C4: once the RefMut is released the next borrow, of either kind, is     *)
(* granted, and every read yields the string as written so far; in         *)
(* it_allows_modification_of_immutable_ref the last read is "Hello world!".*)
(***************************************************************************)
C4_ReleaseUnblocks ==
    /\ \A i \in 1..(Len(trace) - 1) :
          (trace[i].op = "end_scope_mut" /\ trace[i + 1].op \in BorrowOps \cup {"let_borrow_mut"})
              => ~trace[i + 1].panic
    /\ \A i \in 2..Len(trace) :
          (trace[i - 1].op = "end_scope_mut" /\ trace[i].op = "read_temp")
              => trace[i].val = Written(SubSeq(trace, 1, i), {"new", "push_str"})
    /\ Reaches(ItAllowsScript, 6) => ~trace[6].panic /\ trace[6].val = "Hello world!"

C4_Witness == Reaches(ItAllowsScript, 6) /\ ~panicked

(***************************************************************************)
(* test_interior_mutability (tests/interior-mutability.rs, lines 53-136):  *)
(* LimitTracker<MockMessenger>.                                            *)
(***************************************************************************)
MaxUsages == {0, 4, 100}

Usages == {0, 3, 50, 74, 75, 80, 89, 90, 95, 100, 101}

\* self.usage as f64 / self.max_usage as f64.  Both conversions are exact
\* below 2^53, so the quotient is kept as the pair it is the rounding of;
\* x / 0 is +inf for x > 0 and NaN for x = 0.
usage_percent(usage, max_usage) == [num |-> usage, den |-> max_usage]

\* q >= n/d on f64, for the literals 1.0, 0.9 and 0.75.  NaN compares false
\* with everything, +inf is above every literal; with a denominator below
\* 2^50 the rounded quotient is on the same side of the literal as the
\* exact one.
f64_ge(q, n, d) ==
    IF q.den = 0 THEN q.num > 0 ELSE q.num * d >= n * q.den

\* A chain of plain ifs: every threshold reached sends its message.
threshold_messages_cumulative(q) ==
    (IF f64_ge(q, 1, 1) THEN <<"ERROR: Quota exceeded.">> ELSE <<>>)
    \o (IF f64_ge(q, 9, 10) THEN <<"WARNING: Reached 90% of quota.">> ELSE <<>>)
    \o (IF f64_ge(q, 3, 4) THEN <<"INFO: Reached 75% of quota.">> ELSE <<>>)

\* The if / else if chain of set_value: the messages it passes to send.
threshold_messages(q) ==
    IF f64_ge(q, 1, 1) THEN <<"ERROR: Quota exceeded.">>
    ELSE IF f64_ge(q, 9, 10) THEN <<"WARNING: Reached 90% of quota.">>
    ELSE IF f64_ge(q, 3, 4) THEN <<"INFO: Reached 75% of quota.">>
    ELSE <<>>

\* A send that keeps only the latest message.
send_overwrite(cell, message) ==
    IF try_borrow_mut(cell)
    THEN [ok |-> TRUE,
          cell |-> RefMut_drop([RefMut_new(cell) EXCEPT !.value = <<message>>])]
    ELSE [ok |-> FALSE, cell |-> cell]

\* MockMessenger::send: self.sent_messages.borrow_mut().push(String::from(message));
\* the temporary RefMut is dropped at the end of the statement.
send(cell, message) ==
    IF try_borrow_mut(cell)
    THEN [ok |-> TRUE,
          cell |-> RefMut_drop([RefMut_new(cell) EXCEPT !.value = Append(@, message)])]
    ELSE [ok |-> FALSE, cell |-> cell]

\* The sends of one set_value call in order, stopping at the first panic.
\* called: the messages passed to send so far.
RECURSIVE send_each(_, _, _)
send_each(cell, msgs, called) ==
    IF msgs = <<>> THEN [ok |-> TRUE, cell |-> cell, called |-> called]
    ELSE LET r == send(cell, Head(msgs))
         IN  IF r.ok THEN send_each(r.cell, Tail(msgs), Append(called, Head(msgs)))
             ELSE [ok |-> FALSE, cell |-> cell, called |-> Append(called, Head(msgs))]

tracker_alive == ~panicked /\ Len(trace) <= MaxCalls

\* let mock_messenger = MockMessenger::new();
\* let mut limit_tracker = LimitTracker::new(&mock_messenger, m);
InitTracker ==
    /\ \E m \in MaxUsages :
        /\ limit_tracker = [messenger |-> "mock_messenger", usage |-> 0, max_usage |-> m]
        /\ trace = <<Entry("new", m, FALSE, <<>>)>>
    /\ sent_messages = RefCell_new(<<>>)
    /\ caller_refs = 0
    /\ panicked = FALSE
    /\ CellIdle /\ ListIdle /\ BoxIdle /\ MoveIdle

\* A set_value that reports a level only when the call changes it.
SetValue_hysteresis(usage) ==
    /\ tracker_alive
    /\ limit_tracker' = [limit_tracker EXCEPT !.usage = usage]
    /\ LET old == threshold_messages(usage_percent(limit_tracker.usage, limit_tracker.max_usage))
           new == threshold_messages(usage_percent(usage, limit_tracker.max_usage))
           r == send_each(sent_messages, IF new = old THEN <<>> ELSE new, <<>>)
       IN  /\ sent_messages' = r.cell
           /\ trace' = Append(trace, Entry("set_value", usage, ~r.ok, r.called))
           /\ panicked' = ~r.ok
    /\ UNCHANGED <<caller_refs, cellVars, listVars, boxVars, moveVars>>

\* limit_tracker.set_value(usage), with the send it makes.
SetValue(usage) ==
    /\ tracker_alive
    /\ limit_tracker' = [limit_tracker EXCEPT !.usage = usage]
    /\ LET q == usage_percent(limit_tracker'.usage, limit_tracker'.max_usage)
           r == send_each(sent_messages, threshold_messages(q), <<>>)
       IN  /\ sent_messages' = r.cell
           /\ trace' = Append(trace, Entry("set_value", usage, ~r.ok, r.called))
           /\ panicked' = ~r.ok
    /\ UNCHANGED <<caller_refs, cellVars, listVars, boxVars, moveVars>>

\* assert_eq!(mock_messenger.sent_messages.borrow().len(), ..): a temporary Ref.
ReadLen ==
    /\ tracker_alive
    /\ IF try_borrow(sent_messages)
       THEN /\ sent_messages' = Ref_drop(Ref_new(sent_messages))
            /\ Ran("read_len", 0, <<Len(Ref_new(sent_messages).value)>>)
       ELSE /\ sent_messages' = sent_messages
            /\ Panicked("read_len", 0)
    /\ UNCHANGED <<limit_tracker, caller_refs, cellVars, listVars, boxVars, moveVars>>

\* mock_messenger.sent_messages.borrow() kept in a binding of the test body.
CallerBorrow ==
    /\ tracker_alive
    /\ caller_refs < MaxGuards
    /\ IF try_borrow(sent_messages)
       THEN /\ sent_messages' = Ref_new(sent_messages)
            /\ caller_refs' = caller_refs + 1
            /\ Ran("caller_borrow", 0, <<>>)
       ELSE /\ UNCHANGED <<sent_messages, caller_refs>>
            /\ Panicked("caller_borrow", 0)
    /\ UNCHANGED <<limit_tracker, cellVars, listVars, boxVars, moveVars>>

\* The test body drops a Ref it kept.
CallerRelease ==
    /\ tracker_alive
    /\ caller_refs > 0
    /\ sent_messages' = Ref_drop(sent_messages)
    /\ caller_refs' = caller_refs - 1
    /\ Ran("caller_release", 0, <<>>)
    /\ UNCHANGED <<limit_tracker, cellVars, listVars, boxVars, moveVars>>

NextTracker ==
    \/ \E usage \in Usages : SetValue(usage)
    \/ ReadLen
    \/ CallerBorrow
    \/ CallerRelease

SpecTracker == InitTracker /\ [][NextTracker]_vars

\* The set_value calls of the trace.
SetValueCalls == {i \in 1..Len(trace) : trace[i].op = "set_value"}

(***************************************************************************)
(* C5: with max_usage > 0 a set_value(v) call passes one message to send   *)
(* when v/max_usage >= 0.75 and none otherwise, the one of the highest     *)
(* threshold reached; with max 100: 80 INFO, 95 WARNING, 100 ERROR, 50     *)
(* nothing.                                                                *)
(***************************************************************************)
C5_OneHighestMessage ==
    \A i \in SetValueCalls :
        LET v == trace[i].arg
            max == limit_tracker.max_usage
            sent == trace[i].val
        IN  max > 0 =>
              /\ (4 * v >= 3 * max) => Len(sent) = 1
              /\ (4 * v < 3 * max) => sent = <<>>
              /\ (v >= max) => sent = <<"ERROR: Quota exceeded.">>
              /\ (10 * v >= 9 * max /\ v < max) => sent = <<"WARNING: Reached 90% of quota.">>
              /\ (4 * v >= 3 * max /\ 10 * v < 9 * max) => sent = <<"INFO: Reached 75% of quota.">>
              /\ (max = 100 /\ v = 80) => sent = <<"INFO: Reached 75% of quota.">>
              /\ (max = 100 /\ v = 95) => sent = <<"WARNING: Reached 90% of quota.">>
              /\ (max = 100 /\ v = 100) => sent = <<"ERROR: Quota exceeded.">>
              /\ (max = 100 /\ v = 50) => sent = <<>>

\* The test's tracker (max 100) has been set to 95, to 100 and to 80.
C5_Witness ==
    /\ limit_tracker.max_usage = 100
    /\ {95, 100, 80} \subseteq {trace[i].arg : i \in SetValueCalls}

(***************************************************************************)
(* C6: no hysteresis.  Two set_value calls with the same value pass the    *)
(* same messages to send, whatever was set in between, and after a call    *)
(* the stored usage is the value set.                                      *)
(***************************************************************************)
C6_NoHysteresis ==
    /\ \A i, j \in SetValueCalls : trace[i].arg = trace[j].arg => trace[i].val = trace[j].val
    /\ Last(trace).op = "set_value" => limit_tracker.usage = Last(trace).arg

\* The same value at a threshold set twice in a row: the message is sent again.
C6_Witness ==
    /\ Len(trace) >= 3
    /\ trace[2].op = "set_value" /\ trace[3].op = "set_value"
    /\ trace[2].arg = trace[3].arg
    /\ trace[3].val = <<"INFO: Reached 75% of quota.">>
    /\ Len(sent_messages.value) = 2

(***************************************************************************)
(* C10: a set_value call made while the test body holds no Ref on          *)
(* sent_messages does not panic in send, appends at most one message to    *)
(* the log and keeps the earlier ones, and leaves max_usage and the        *)
(* messenger reference as they were.                                       *)
(***************************************************************************)
C10_SetValueFrame ==
    [][(Len(trace') = Len(trace) + 1 /\ Last(trace').op = "set_value" /\ caller_refs = 0) =>
        /\ ~panicked'
        /\ Len(sent_messages'.value) <= Len(sent_messages.value) + 1
        /\ SubSeq(sent_messages'.value, 1, Len(sent_messages.value)) = sent_messages.value
        /\ limit_tracker'.max_usage = limit_tracker.max_usage
        /\ limit_tracker'.messenger = limit_tracker.messenger
      ]_vars

\* A Ref was taken and released, and the set_value call after it logged
\* its message.
C10_Witness ==
    /\ caller_refs = 0
    /\ ~panicked
    /\ \E i \in 1..Len(trace) : trace[i].op = "caller_release"
    /\ Last(trace).op = "set_value"
    /\ Len(sent_messages.value) >= 1

(***************************************************************************)
(* test_multiple_interior_mutability (tests/interior-mutability.rs, lines  *)
(* 147-209): a cons list of Rc<RefCell<i32>> heads and Rc<List> tails.     *)
(* heap[a] is the allocation (RcBox) at address a: its strong count and    *)
(* either a RefCell<i32> or a List.                                        *)
(***************************************************************************)
ListValues == {5, 10}

HeadValues == {3, 4}

\* Rc::new(RefCell::new(v))
RcCell(v) == [strong |-> 1, kind |-> "cell", cell |-> RefCell_new(v)]

\* Rc::new(Nil)
RcNil == [strong |-> 1, kind |-> "nil"]

\* Rc::new(Cons(head, tail)), head and tail being addresses.
RcCons(head, tail) == [strong |-> 1, kind |-> "cons", head |-> head, tail |-> tail]

\* Rc::clone(&rc): one more owner of the allocation at address a.
Rc_clone(h, a) == [h EXCEPT ![a].strong = @ + 1]

\* impl Debug for RefCell<i32>: the value when it can be borrowed.
fmt_RefCell(c) ==
    IF try_borrow(c)
    THEN "RefCell { value: " \o ToString(c.value) \o " }"
    ELSE "RefCell { value: <borrowed> }"

\* #[derive(Debug)] enum List, through the Rc pointers.
RECURSIVE fmt_List(_)
fmt_List(a) ==
    IF heap[a].kind = "nil" THEN "Nil"
    ELSE "Cons(" \o fmt_RefCell(heap[heap[a].head].cell) \o ", " \o fmt_List(heap[a].tail) \o ")"

\* let start_value = Rc::new(RefCell::new(v));
InitList ==
    /\ \E v \in ListValues :
        /\ heap = <<RcCell(v)>>
        /\ trace = <<Entry("new", v, FALSE, <<>>)>>
    /\ binds = [start_value |-> 1, common_list |-> 0, branch_1 |-> 0, branch_2 |-> 0]
    /\ panicked = FALSE
    /\ CellIdle /\ TrackerIdle /\ BoxIdle /\ MoveIdle

\* A common list that copies the value into a cell of its own.
BuildCommon_copy ==
    /\ unit_alive
    /\ binds.common_list = 0
    /\ LET n == Len(heap)
       IN  /\ heap' = heap \o <<RcNil, RcCell(heap[binds.start_value].cell.value), RcCons(n + 2, n + 1)>>
           /\ binds' = [binds EXCEPT !.common_list = n + 3]
    /\ Ran("build_common", 0, <<>>)
    /\ UNCHANGED <<cellVars, trackerVars, boxVars, moveVars>>

\* let common_list = Rc::new(Cons(Rc::clone(&start_value), Rc::new(Nil)));
BuildCommon ==
    /\ unit_alive
    /\ binds.common_list = 0
    /\ LET n == Len(heap)
       IN  /\ heap' = Rc_clone(heap, binds.start_value) \o <<RcNil, RcCons(binds.start_value, n + 1)>>
           /\ binds' = [binds EXCEPT !.common_list = n + 2]
    /\ Ran("build_common", 0, <<>>)
    /\ UNCHANGED <<cellVars, trackerVars, boxVars, moveVars>>

\* let branch_1 = Rc::new(Cons(Rc::new(RefCell::new(v)), Rc::clone(&common_list)));
BuildBranch1(v) ==
    /\ unit_alive
    /\ binds.common_list /= 0
    /\ binds.branch_1 = 0
    /\ LET n == Len(heap)
       IN  /\ heap' = Rc_clone(heap, binds.common_list) \o <<RcCell(v), RcCons(n + 1, binds.common_list)>>
           /\ binds' = [binds EXCEPT !.branch_1 = n + 2]
    /\ Ran("build_branch_1", v, <<>>)
    /\ UNCHANGED <<cellVars, trackerVars, boxVars, moveVars>>

\* let branch_2 = Rc::new(Cons(Rc::new(RefCell::new(v)), Rc::clone(&common_list)));
BuildBranch2(v) ==
    /\ unit_alive
    /\ binds.branch_1 /= 0
    /\ binds.branch_2 = 0
    /\ LET n == Len(heap)
       IN  /\ heap' = Rc_clone(heap, binds.common_list) \o <<RcCell(v), RcCons(n + 1, binds.common_list)>>
           /\ binds' = [binds EXCEPT !.branch_2 = n + 2]
    /\ Ran("build_branch_2", v, <<>>)
    /\ UNCHANGED <<cellVars, trackerVars, boxVars, moveVars>>

\* The two assert_eq!(format!("{:?}", branch_1), ..), (.., branch_2), ..) in a row.
FormatBranches ==
    /\ unit_alive
    /\ binds.branch_2 /= 0
    /\ Ran("format", 0, <<fmt_List(binds.branch_1), fmt_List(binds.branch_2)>>)
    /\ UNCHANGED <<listVars, cellVars, trackerVars, boxVars, moveVars>>

\* *(start_value.borrow_mut()) = v;  the temporary RefMut is dropped at the
\* end of the statement.
SetStartValue(v) ==
    /\ unit_alive
    /\ LET a == binds.start_value
       IN  IF try_borrow_mut(heap[a].cell)
           THEN /\ heap' = [heap EXCEPT ![a].cell =
                                RefMut_drop([RefMut_new(@) EXCEPT !.value = v])]
                /\ Ran("set", v, <<>>)
           ELSE /\ heap' = heap
                /\ Panicked("set", v)
    /\ UNCHANGED <<binds, cellVars, trackerVars, boxVars, moveVars>>

NextList ==
    \/ BuildCommon
    \/ \E v \in HeadValues : BuildBranch1(v)
    \/ \E v \in HeadValues : BuildBranch2(v)
    \/ FormatBranches
    \/ \E v \in ListValues : SetStartValue(v)

SpecList == InitList /\ [][NextList]_vars

\* it_makes_multiple_refs, lines 169-207, as (op, argument).
ItMakesMultipleRefsScript ==
    << <<"new", 5>>, <<"build_common", 0>>, <<"build_branch_1", 3>>,
       <<"build_branch_2", 4>>, <<"format", 0>>, <<"set", 10>>, <<"format", 0>> >>

\* The value last given to the shared scalar before statement i.
RECURSIVE SharedBefore(_)
SharedBefore(i) ==
    IF trace[i - 1].op \in {"new", "set"} THEN trace[i - 1].arg ELSE SharedBefore(i - 1)

\* The head value branch b ("build_branch_1", "build_branch_2") was built with.
HeadBuilt(b) == trace[CHOOSE i \in 1..Len(trace) : trace[i].op = b].arg

\* The Debug text of a two-element list.
TwoElements(x, y) ==
    "Cons(RefCell { value: " \o ToString(x) \o " }, Cons(RefCell { value: "
        \o ToString(y) \o " }, Nil))"

(***************************************************************************)
(* C7: both heads print their own first element and the value the shared   *)
(* scalar has when they are printed; in the test [3, 5] and [4, 5] become  *)
(* [3, 10] and [4, 10] once the shared 5 is set to 10.                     *)
(***************************************************************************)
C7_SharedMutationVisible ==
    /\ \A i \in 1..Len(trace) :
         trace[i].op = "format" =>
            trace[i].val = << TwoElements(HeadBuilt("build_branch_1"), SharedBefore(i)),
                              TwoElements(HeadBuilt("build_branch_2"), SharedBefore(i)) >>
    /\ Reaches(ItMakesMultipleRefsScript, 7) =>
         /\ trace[5].val = << "Cons(RefCell { value: 3 }, Cons(RefCell { value: 5 }, Nil))",
                              "Cons(RefCell { value: 4 }, Cons(RefCell { value: 5 }, Nil))" >>
         /\ trace[7].val = << "Cons(RefCell { value: 3 }, Cons(RefCell { value: 10 }, Nil))",
                              "Cons(RefCell { value: 4 }, Cons(RefCell { value: 10 }, Nil))" >>

C7_Witness == Reaches(ItMakesMultipleRefsScript, 7) /\ ~panicked

(***************************************************************************)
(* test_user_defined_deref (tests/references.rs, lines 92-218):            *)
(* struct MyBox<T>(T) with Deref and DerefMut, here with T = String.       *)
(* stack.mybox is the local; mut_ref is the live &mut String the test      *)
(* holds into it (<<>> when none is live).                                 *)
(***************************************************************************)
BoxTexts == {"Hola mundo!", "Hello"}

PushChars == {"!", "?"}

\* MyBox::new(data): MyBox(data), a one-field tuple struct.
MyBox_new(data) == <<data>>

\* Deref::deref(&self) -> &T is &self.0; this is what the reference reads.
deref(self) == self[1]

\* A deref_mut that hands out a reference to a copy of the field.
deref_mut_copy(self, v) == self

\* DerefMut::deref_mut(&mut self) -> &mut T is &mut self.0; this is self
\* after v has been stored through the reference.
deref_mut(self, v) == [self EXCEPT ![1] = v]

\* String::push
String_push(str, ch) == str \o ch

box_alive == ~panicked /\ Len(trace) <= MaxBoxOps

\* let mut mybox = MyBox::new( String::from(d) );
InitMyBox ==
    /\ \E d \in BoxTexts :
        /\ stack = [mybox |-> MyBox_new(d)]
        /\ trace = <<Entry("new", d, FALSE, "")>>
    /\ mut_ref = <<>>
    /\ panicked = FALSE
    /\ CellIdle /\ TrackerIdle /\ ListIdle /\ MoveIdle

\* assert_eq!(*mybox, ..): *mybox is *Deref::deref(&mybox).  Using mybox
\* ends the life of a &mut taken from it.
ReadStar ==
    /\ box_alive
    /\ Ran("star", "", deref(stack.mybox))
    /\ mut_ref' = <<>>
    /\ UNCHANGED <<stack, cellVars, trackerVars, listVars, moveVars>>

\* *(mybox.deref())
ReadDeref ==
    /\ box_alive
    /\ Ran("deref", "", deref(stack.mybox))
    /\ mut_ref' = <<>>
    /\ UNCHANGED <<stack, cellVars, trackerVars, listVars, moveVars>>

\* let mut_ref = &mut mybox as &mut String;
CoerceMutExplicit ==
    /\ box_alive
    /\ mut_ref' = <<"mybox", 0>>
    /\ Ran("coerce_mut_explicit", "", "")
    /\ UNCHANGED <<stack, cellVars, trackerVars, listVars, moveVars>>

\* let mut_ref : &mut String = &mut mybox;
CoerceMutImplicit ==
    /\ box_alive
    /\ mut_ref' = <<"mybox", 0>>
    /\ Ran("coerce_mut_implicit", "", "")
    /\ UNCHANGED <<stack, cellVars, trackerVars, listVars, moveVars>>

\* mut_ref.push(ch);
PushViaRef(ch) ==
    /\ box_alive
    /\ mut_ref /= <<>>
    /\ stack' = [stack EXCEPT ![mut_ref[1]] = deref_mut(@, String_push(deref(@), ch))]
    /\ Ran("push", ch, "")
    /\ UNCHANGED <<mut_ref, cellVars, trackerVars, listVars, moveVars>>

\* mybox.push(ch): the method call auto-dereferences through deref_mut.
MethodPush(ch) ==
    /\ box_alive
    /\ stack' = [stack EXCEPT !.mybox = deref_mut(@, String_push(deref(@), ch))]
    /\ mut_ref' = <<>>
    /\ Ran("method_push", ch, "")
    /\ UNCHANGED <<cellVars, trackerVars, listVars, moveVars>>

\* let immut_ref = mut_ref as &String; assert_eq!(immut_ref, ..);
ReadViaRef ==
    /\ box_alive
    /\ mut_ref /= <<>>
    /\ Ran("read_ref", "", deref(stack[mut_ref[1]]))
    /\ UNCHANGED <<boxVars, cellVars, trackerVars, listVars, moveVars>>

NextMyBox ==
    \/ ReadStar
    \/ ReadDeref
    \/ CoerceMutExplicit
    \/ CoerceMutImplicit
    \/ \E ch \in PushChars : PushViaRef(ch)
    \/ \E ch \in PushChars : MethodPush(ch)
    \/ ReadViaRef

SpecMyBox == InitMyBox /\ [][NextMyBox]_vars

\* mutable_reference_explicit_coercion, lines 167-175.
ExplicitCoercionScript ==
    << <<"new", "Hola mundo!">>, <<"coerce_mut_explicit", "">>, <<"push", "!">>, <<"star", "">> >>

\* mutable_reference_implicit_coercion, lines 181-191.
ImplicitCoercionScript ==
    << <<"new", "Hola mundo!">>, <<"coerce_mut_implicit", "">>, <<"push", "!">>, <<"star", "">> >>

\* method_call_implicit_coercion_, lines 196-202.
MethodCallScript ==
    << <<"new", "Hello">>, <<"method_push", "!">>, <<"star", "">> >>

BoxReads == {"star", "deref", "read_ref"}

(***************************************************************************)
(* C8: *mybox and *(mybox.deref()) read the same value, the contained one, *)
(* which is the constructor's string followed by every character pushed    *)
(* through a coerced &mut String or an auto-dereferenced method call;      *)
(* "Hola mundo!" then push('!') reads "Hola mundo!!".                      *)
(***************************************************************************)
C8_DerefReadsContained ==
    /\ \A i \in 1..Len(trace) :
         trace[i].op \in BoxReads =>
            trace[i].val = Written(SubSeq(trace, 1, i), {"new", "push", "method_push"})
    /\ \A i \in 1..(Len(trace) - 1) :
         (trace[i].op = "star" /\ trace[i + 1].op = "deref") => trace[i].val = trace[i + 1].val
    /\ Reaches(ExplicitCoercionScript, 4) => trace[4].val = "Hola mundo!!"
    /\ Reaches(ImplicitCoercionScript, 4) => trace[4].val = "Hola mundo!!"
    /\ Reaches(MethodCallScript, 3) => trace[3].val = "Hello!"

\* The explicit coercion test, followed by the explicit deref read.
C8_Witness ==
    /\ Reaches(ExplicitCoercionScript, 4)
    /\ Len(trace) = 5
    /\ trace[5].op = "deref"

(***************************************************************************)
(* Move semantics: the compile_fail example of src/lib.rs (lines 18-27)    *)
(* and move_non_copy_value_to_box (tests/references.rs, lines 74-85).      *)
(* prog is a function body after  let text = String::from(..);  it runs    *)
(* only if the compiler accepts it.  text is bound without mut, so the     *)
(* only statement that can run on it is the move into the box.             *)
(***************************************************************************)
MoveTexts == {"Hello world", "hi"}

Stmts == {"box_new", "use_text", "push_box_star", "push_box", "read_box"}

BoxUses == {"push_box_star", "push_box", "read_box"}

\* Every function body of at most n statements.
RECURSIVE Bodies(_)
Bodies(n) ==
    IF n = 0 THEN {<<>>}
    ELSE Bodies(n - 1) \cup {Append(b, st) : b \in {c \in Bodies(n - 1) : Len(c) = n - 1}, st \in Stmts}

\* error[E0382]: text is used (or moved again) after Box::new(text) moved it.
E0382(body) ==
    \E i, j \in 1..Len(body) :
        i < j /\ body[i] = "box_new" /\ body[j] \in {"use_text", "box_new"}

\* error[E0596]: text is not declared mut (let text = ..), so text.push('!')
\* cannot borrow it as mutable, moved or not.
E0596(body) == \E j \in 1..Len(body) : body[j] = "use_text"

\* text_box is named before the let that binds it.
Unbound(body) ==
    \E j \in 1..Len(body) :
        body[j] \in BoxUses /\ \A i \in 1..(j - 1) : body[i] /= "box_new"

\* A compiler without the moved-value check.
compiles_unchecked(body) == ~E0596(body) /\ ~Unbound(body)

\* The body passes the compiler's checks.
compiles(body) == ~E0382(body) /\ ~E0596(body) /\ ~Unbound(body)

\* let text = String::from(t);  followed by the body.
InitMove ==
    /\ prog \in Bodies(MaxStmts)
    /\ pc = 0
    /\ \E t \in MoveTexts :
        /\ text = [state |-> "init", value |-> t]
        /\ trace = <<Entry("new", t, FALSE, "")>>
    /\ text_box = [state |-> "uninit", value |-> ""]
    /\ panicked = FALSE
    /\ CellIdle /\ TrackerIdle /\ ListIdle /\ BoxIdle

\* The next statement of an accepted body is st.
AtStmt(st) == compiles(prog) /\ pc < Len(prog) /\ prog[pc + 1] = st

\* let mut text_box = Box::new(text);  the String moves into the box.
ExecBoxNew ==
    /\ AtStmt("box_new")
    /\ text_box' = [state |-> "init", value |-> text.value]
    /\ text' = [text EXCEPT !.state = "moved"]
    /\ pc' = pc + 1
    /\ Ran("box_new", "", "")
    /\ UNCHANGED <<prog, cellVars, trackerVars, listVars, boxVars>>

\* (*text_box).push('!');
ExecPushBoxStar ==
    /\ AtStmt("push_box_star")
    /\ text_box' = [text_box EXCEPT !.value = String_push(@, "!")]
    /\ pc' = pc + 1
    /\ Ran("push_box_star", "!", "")
    /\ UNCHANGED <<prog, text, cellVars, trackerVars, listVars, boxVars>>

\* text_box.push('!');
ExecPushBox ==
    /\ AtStmt("push_box")
    /\ text_box' = [text_box EXCEPT !.value = String_push(@, "!")]
    /\ pc' = pc + 1
    /\ Ran("push_box", "!", "")
    /\ UNCHANGED <<prog, text, cellVars, trackerVars, listVars, boxVars>>

\* assert_eq!(*text_box, ..);
ExecReadBox ==
    /\ AtStmt("read_box")
    /\ pc' = pc + 1
    /\ Ran("read_box", "", text_box.value)
    /\ UNCHANGED <<prog, text, text_box, cellVars, trackerVars, listVars, boxVars>>

NextMove ==
    \/ ExecBoxNew
    \/ ExecPushBoxStar
    \/ ExecPushBox
    \/ ExecReadBox

SpecMove == InitMove /\ [][NextMove]_vars

\* attempt_to_use_moved_value (src/lib.rs, lines 24-25).
AttemptToUseMovedValue == <<"box_new", "use_text">>

\* move_non_copy_value_to_box (tests/references.rs, lines 78-84).
MoveNonCopyValueToBox ==
    <<"box_new", "read_box", "push_box_star", "read_box", "push_box", "read_box">>

(***************************************************************************)
(* C9: no statement that uses text (text.push, or a second Box::new(text))  *)
(* runs after Box::new(text) has moved it: a body that has one is rejected *)
(* whole, attempt_to_use_moved_value with E0382; once the box holds the    *)
(* string, text is moved, and a read through the box yields the string     *)
(* with every push made so far: move_non_copy_value_to_box ends reading    *)
(* "Hello world!!".                                                        *)
(***************************************************************************)
C9_NoUseAfterMove ==
    /\ \A i, j \in 1..Len(trace) :
         (i < j /\ trace[i].op = "box_new") => trace[j].op \notin {"use_text", "box_new"}
    /\ (\E k \in 0..(Len(prog) - 2) :
            SubSeq(prog, k + 1, k + 2) = AttemptToUseMovedValue) => E0382(prog) /\ pc = 0
    /\ text_box.state = "init" => text.state = "moved"
    /\ \A i \in 1..Len(trace) :
         trace[i].op = "read_box" =>
            trace[i].val = Written(SubSeq(trace, 1, i),
                                   {"new", "push_box_star", "push_box"})
    /\ (prog = MoveNonCopyValueToBox /\ pc = 6 /\ trace[1].arg = "Hello world") =>
         /\ trace[3].val = "Hello world"
         /\ trace[5].val = "Hello world!"
         /\ trace[7].val = "Hello world!!"

\* move_non_copy_value_to_box has run to its end.
C9_Witness == prog = MoveNonCopyValueToBox /\ pc = 6 /\ trace[1].arg = "Hello world"

====
